---- MODULE Spec2Model ----
(***************************************************************************)
(* Model of clean-html (src/main.go): the element classifier and the tree  *)
(* extractor, the text post-processing of the converted markdown, and the  *)
(* per-file pipeline driven by the directory walk.                         *)
(*                                                                         *)
(* Go strings are modelled as sequences of one-character strings, so that  *)
(* the strings.* functions the program calls are computed, not assumed.    *)
(***************************************************************************)
EXTENDS Integers, Sequences, FiniteSets, TLC

VARIABLES
    doc,        \* the parsed document: a sequence of html.Node records
    stack,      \* pending calls of the walk f of extractContent
    extracted,  \* extractContent's result: one entry per rendered node
    mdText,     \* the text the brace scan of processHTMLFile runs over
    i,          \* the scan's index (1-based here, 0-based in Go)
    result,     \* the bytes the scan has written to the strings.Builder
    bpc,        \* the scan's position: "idle", "scan", "done"
    lineIn,     \* one line of the converted text, as split on "\n"
    line,       \* the loop variable `line` of the directive-line pass
    lpc,        \* "idle", "filter", "up", "index", "kept", "dropped"
    fs0,        \* the files under the input root when the run starts
    fs,         \* the files under the input root now: path -> content
    out,        \* the files of the output directory: path -> content
    st,         \* per input path: how far processHTMLFile has carried it
    content,    \* processHTMLFile's local: the bytes read from the input
    order,      \* the walk's list of the entries, in the order it visits them
    cursor,     \* index into the walk order of the entry being visited
    rpc         \* the driver's position: "idle", "walk", "cleanup", ...

vars == <<doc, stack, extracted, mdText, i, result, bpc, lineIn, line, lpc,
          fs0, fs, out, st, content, order, cursor, rpc>>

treeVars  == <<doc, stack, extracted>>
braceVars == <<mdText, i, result, bpc>>
lineVars  == <<lineIn, line, lpc>>
runVars   == <<fs0, fs, out, st, content, order, cursor, rpc>>

----------------------------------------------------------------------------
(* Bounds of the model.                                                    *)

MaxNodes == 5
MaxAttrs == 2
MaxText == 8
MaxPieces == 4
MaxFiles == 3

----------------------------------------------------------------------------
(* Go's strings package, on sequences of characters.                       *)

RECURSIVE Flatten(_)
Flatten(ss) == IF ss = <<>> THEN <<>> ELSE Head(ss) \o Flatten(Tail(ss))

IsSpace(c) == c \in {" ", "\t", "\n", "\r"}

RECURSIVE TrimLeft(_)
TrimLeft(s) ==
    IF s # <<>> /\ IsSpace(Head(s)) THEN TrimLeft(Tail(s)) ELSE s

RECURSIVE TrimRight(_)
TrimRight(s) ==
    IF s # <<>> /\ IsSpace(s[Len(s)])
    THEN TrimRight(SubSeq(s, 1, Len(s) - 1))
    ELSE s

TrimSpace(s) == TrimRight(TrimLeft(s))

HasPrefix(s, p) == Len(s) >= Len(p) /\ SubSeq(s, 1, Len(p)) = p

HasSuffix(s, p) ==
    Len(s) >= Len(p) /\ SubSeq(s, Len(s) - Len(p) + 1, Len(s)) = p

Contains(s, p) ==
    \E k \in 1..(Len(s) - Len(p) + 1) : SubSeq(s, k, k + Len(p) - 1) = p

TrimSuffix(s, p) ==
    IF HasSuffix(s, p) THEN SubSeq(s, 1, Len(s) - Len(p)) ELSE s

\* strings.ReplaceAll: non-overlapping occurrences, leftmost first.
RECURSIVE ReplaceAll(_, _, _)
ReplaceAll(s, old, new) ==
    IF Len(s) < Len(old) \/ s = <<>> THEN s
    ELSE IF HasPrefix(s, old)
         THEN new \o ReplaceAll(SubSeq(s, Len(old) + 1, Len(s)), old, new)
         ELSE <<Head(s)>> \o ReplaceAll(Tail(s), old, new)

----------------------------------------------------------------------------
(* html.Node: Type, Data, Attr and the tree links.  A document is a        *)
(* sequence of nodes; Parent is an index (0 for the root), and the         *)
(* children of a node are the nodes naming it, in index order              *)
(* (FirstChild / NextSibling).                                             *)

Children(d, n) ==
    LET RECURSIVE From(_)
        From(k) == IF k > Len(d) THEN <<>>
                   ELSE IF d[k].Parent = n THEN <<k>> \o From(k + 1)
                   ELSE From(k + 1)
    IN From(1)

\* hasNoAttributes comparing attr.Val where the code compares attr.Key
hasNoAttributesByVal(n, excludeAttrs) ==
    \A a \in 1..Len(n.Attr) : n.Attr[a].Val \notin excludeAttrs

hasNoAttributes(n, excludeAttrs) ==
    \A a \in 1..Len(n.Attr) : n.Attr[a].Key \notin excludeAttrs

RECURSIVE getTextContent(_, _)
getTextContent(d, n) ==
    LET text == IF d[n].Type = "TextNode" THEN d[n].Data ELSE <<>>
        kids == Children(d, n)
        RECURSIVE Add(_, _)
        Add(t, k) == IF k > Len(kids) THEN t
                     ELSE Add(t \o getTextContent(d, kids[k]), k + 1)
    IN TrimSpace(Add(text, 1))

Copyright == <<"C", "o", "p", "y", "r", "i", "g", "h", "t">>
DistrictMap == <<"D", "i", "s", "t", "r", "i", "c", "t", " ", "M", "a", "p">>

isTargetElement(d, n) ==
    IF d[n].Type # "ElementNode" THEN FALSE
    ELSE CASE d[n].Data = <<"u", "l">> ->
                hasNoAttributes(d[n], {"id", "style"})
           [] d[n].Data = <<"p">> ->
                IF ~hasNoAttributes(d[n], {"class", "style"}) THEN FALSE
                ELSE ~Contains(getTextContent(d, n), Copyright)
           [] d[n].Data = <<"h", "3">> ->
                IF ~hasNoAttributes(d[n], {"class", "id"}) THEN FALSE
                ELSE ~Contains(getTextContent(d, n), DistrictMap)
           [] d[n].Data \in {<<"h", "1">>, <<"h", "2">>} ->
                hasNoAttributes(d[n], {"class", "id"})
           [] d[n].Data = <<"d", "i", "v">> ->
                \E a \in 1..Len(d[n].Attr) :
                    d[n].Attr[a].Key = "class" /\ d[n].Attr[a].Val = "photogimg"
           [] OTHER -> FALSE

----------------------------------------------------------------------------
(* extractContent: the recursive closure f as an explicit stack of the     *)
(* nodes still to visit; the head is the call that runs next.              *)

\* renderNode serialises the subtree rooted at n; the fragment is recorded
\* by the node it renders.
renderNode(n) == [node |-> n]

\* the accepting branch without the else: the children are walked as well
EmitAndDescend(n) ==
    /\ isTargetElement(doc, n)
    /\ extracted' = Append(extracted, renderNode(n))
    /\ stack' = Children(doc, n) \o Tail(stack)

Emit(n) ==
    /\ isTargetElement(doc, n)
    /\ extracted' = Append(extracted, renderNode(n))
    /\ stack' = Tail(stack)

Descend(n) ==
    /\ ~isTargetElement(doc, n)
    /\ stack' = Children(doc, n) \o Tail(stack)
    /\ extracted' = extracted

Visit ==
    /\ stack # <<>>
    /\ \/ Emit(Head(stack))
       \/ Descend(Head(stack))
    /\ UNCHANGED <<doc, braceVars, lineVars, runVars>>


IdleTree  == doc = <<>> /\ stack = <<>> /\ extracted = <<>>
IdleBrace == mdText = <<>> /\ i = 0 /\ result = <<>> /\ bpc = "idle"
IdleLine  == lineIn = <<>> /\ line = <<>> /\ lpc = "idle"
IdleRun   == /\ fs0 = <<>> /\ fs = <<>> /\ out = <<>> /\ st = <<>>
             /\ content = <<>> /\ order = <<>> /\ cursor = 0
             /\ rpc = "idle"

----------------------------------------------------------------------------
(* Documents.  html.Parse returns a DocumentNode root; text nodes have no  *)
(* children; nodes are numbered in document order.                         *)

Node(type, data, attr, parent) ==
    [Type |-> type, Data |-> data, Attr |-> attr, Parent |-> parent]

Attr(k, v) == [Key |-> k, Val |-> v]

RECURSIVE Ancestors(_, _)
Ancestors(par, n) ==
    IF par[n] = 0 THEN {} ELSE {par[n]} \cup Ancestors(par, par[n])

\* parent vectors of the trees of N nodes numbered in pre-order
Shapes(N) ==
    { par \in [1..N -> 0..(N - 1)] :
        /\ par[1] = 0
        /\ \A n \in 2..N : par[n] \in {n - 1} \cup Ancestors(par, n - 1) }

Elem(tag) == [Type |-> "ElementNode", Data |-> tag, Attr |-> <<>>]
Text(t)   == [Type |-> "TextNode", Data |-> t, Attr |-> <<>>]

TreePalette ==
    { Elem(<<"u", "l">>), Elem(<<"p">>), Elem(<<"s", "p", "a", "n">>),
      Text(<<"C", "o", "p", "y", " ">>), Text(<<"r", "i", "g", "h", "t">>) }

\* What html.Parse can return, as far as the walk can tell: text nodes are
\* leaves, adjacent text nodes are merged into one, and a <p> is closed by
\* the start tag of a <p> or <ul>, so neither sits below a <p>.  The
\* html/head/body wrappers are elements no rule keeps, like <span>.
WellFormed(d) ==
    \A n \in 2..Len(d) :
        /\ d[d[n].Parent].Type # "TextNode"
        /\ \/ d[n].Type # "TextNode"
           \/ d[n - 1].Type # "TextNode"
           \/ d[n - 1].Parent # d[n].Parent
        /\ \/ d[n].Data \notin {<<"p">>, <<"u", "l">>}
           \/ d[n].Type # "ElementNode"
           \/ \A a \in Ancestors([k \in 1..Len(d) |-> d[k].Parent], n) :
                  d[a].Data # <<"p">>

MkDoc(par, lab) ==
    [n \in 1..Len(par) |->
        IF n = 1 THEN Node("DocumentNode", <<>>, <<>>, 0)
        ELSE Node(lab[n].Type, lab[n].Data, lab[n].Attr, par[n])]

InitTree ==
    /\ \E N \in 1..MaxNodes : \E par \in Shapes(N) :
          \E lab \in { l \in [2..N -> TreePalette] : WellFormed(MkDoc(par, l)) } :
            doc = MkDoc(par, lab)
    /\ stack = <<1>>
    /\ extracted = <<>>
    /\ IdleBrace /\ IdleLine /\ IdleRun

SpecTree == InitTree /\ [][Visit]_vars

\* Documents for the classifier: a wrapper no rule keeps, below it one
\* element of any tag with any attribute list, and below that nothing, a
\* text, or an element carrying every excluded key.
Tags ==
    { <<"u", "l">>, <<"p">>, <<"h", "1">>, <<"h", "2">>, <<"h", "3">>,
      <<"d", "i", "v">>, <<"s", "p", "a", "n">> }

AttrPool ==
    { Attr("id", "x"), Attr("style", "x"), Attr("class", "x"),
      Attr("class", "photogimg"), Attr("class", "photogimg x"),
      Attr("title", "photogimg"), Attr("id", "photogimg") }

AttrLists == UNION { [1..k -> AttrPool] : k \in 0..MaxAttrs }

AllKeys == <<Attr("id", "x"), Attr("class", "photogimg"), Attr("style", "x")>>

Below ==
    { <<>>,
      <<Text(Copyright)>>,
      <<Text(DistrictMap)>>,
      <<Text(<<" ", "M", "a", "p", " ">>)>>,
      <<[Type |-> "ElementNode", Data |-> <<"b">>, Attr |-> AllKeys]>>,
      <<[Type |-> "ElementNode", Data |-> <<"b">>, Attr |-> AllKeys],
        Text(Copyright)>> }

ClassifyDocs ==
    { <<Node("DocumentNode", <<>>, <<>>, 0),
        Node("ElementNode", <<"s", "p", "a", "n">>, wrap, 1),
        Node("ElementNode", tag, attr, 2)>>
      \o [k \in 1..Len(sub) |->
            Node(sub[k].Type, sub[k].Data, sub[k].Attr, 2 + k)]
      : wrap \in {<<>>, AllKeys}, tag \in Tags, attr \in AttrLists,
        sub \in Below }

InitClassify ==
    /\ doc \in ClassifyDocs
    /\ stack = <<1>>
    /\ extracted = <<>>
    /\ IdleBrace /\ IdleLine /\ IdleRun

SpecClassify == InitClassify /\ [][Visit]_vars

----------------------------------------------------------------------------
(* Properties of the classifier and the extractor.                         *)

Parents(d) == [k \in 1..Len(d) |-> d[k].Parent]

Keys(n) == { n.Attr[a].Key : a \in 1..Len(n.Attr) }

RECURSIVE RawText(_, _)
\* all text-node data below n, in document order, untrimmed
RawText(d, n) ==
    (IF d[n].Type = "TextNode" THEN d[n].Data ELSE <<>>)
    \o Flatten([k \in 1..Len(Children(d, n)) |-> RawText(d, Children(d, n)[k])])

Rule(d, n) ==
    /\ d[n].Type = "ElementNode"
    /\ \/ d[n].Data = <<"u", "l">> /\ Keys(d[n]) \cap {"id", "style"} = {}
       \/ /\ d[n].Data = <<"p">>
          /\ Keys(d[n]) \cap {"class", "style"} = {}
          /\ ~Contains(getTextContent(d, n), Copyright)
       \/ /\ d[n].Data = <<"h", "3">>
          /\ Keys(d[n]) \cap {"class", "id"} = {}
          /\ ~Contains(getTextContent(d, n), DistrictMap)
       \/ /\ d[n].Data \in {<<"h", "1">>, <<"h", "2">>}
          /\ Keys(d[n]) \cap {"class", "id"} = {}
       \/ /\ d[n].Data = <<"d", "i", "v">>
          /\ Attr("class", "photogimg") \in { d[n].Attr[a] : a \in 1..Len(d[n].Attr) }

C2_FlattenedText ==
    stack = <<>> => \A n \in 1..Len(doc) :
        (doc[n].Data \in {<<"p">>, <<"h", "3">>} /\ doc[n].Type = "ElementNode")
            => getTextContent(doc, n) = TrimSpace(RawText(doc, n))

RECURSIVE PreOrder(_, _)
PreOrder(d, n) ==
    <<n>> \o Flatten([k \in 1..Len(Children(d, n)) |-> PreOrder(d, Children(d, n)[k])])

Accepted(d) == { n \in 1..Len(d) : isTargetElement(d, n) }

Outermost(d) ==
    { n \in Accepted(d) : Ancestors(Parents(d), n) \cap Accepted(d) = {} }

Expected(d) ==
    LET top == Outermost(d)
        RECURSIVE Pick(_)
        Pick(ns) == IF ns = <<>> THEN <<>>
                    ELSE IF Head(ns) \in top
                         THEN <<renderNode(Head(ns))>> \o Pick(Tail(ns))
                         ELSE Pick(Tail(ns))
    IN Pick(PreOrder(d, 1))

IsPrefix(s, t) == Len(s) <= Len(t) /\ SubSeq(t, 1, Len(s)) = s

\* C3: extractContent returns exactly the fragments of the accepted nodes
\* with no accepted proper ancestor, in document order; no emitted node
\* lies below another emitted node.
C3_Extraction ==
    /\ LET exp == Expected(doc) IN
         /\ IsPrefix(extracted, exp)
         /\ stack = <<>> => extracted = exp
    /\ \A a, b \in 1..Len(extracted) :
          extracted[a].node \notin Ancestors(Parents(doc), extracted[b].node)

\* C3 witness: the walk is over, two fragments were emitted, an accepted
\* node below an emitted one was passed over, and an emitted node lies
\* below a rejected element.
C3_Witness ==
    /\ stack = <<>>
    /\ Len(extracted) >= 2
    /\ Accepted(doc) # Outermost(doc)
    /\ \E e \in 1..Len(extracted) :
          doc[doc[extracted[e].node].Parent].Type = "ElementNode"

----------------------------------------------------------------------------
(* processHTMLFile, lines 236-251: the brace scan over mdText.             *)

BraceAlphabet == {"a", "{", "}"}

\* the inner loop stopping one short, on the last character
closeAtCapped(text, from) ==
    LET RECURSIVE Run(_)
        Run(j) == IF j < Len(text) /\ text[j] # "}" THEN Run(j + 1) ELSE j
    IN Run(from)

\* the inner loop: j runs from i to the first "}" or past the end
closeAt(text, from) ==
    LET RECURSIVE Run(_)
        Run(j) == IF j <= Len(text) /\ text[j] # "}" THEN Run(j + 1) ELSE j
    IN Run(from)

\* the skip landing on the closing brace instead of past it
afterSkipOnBrace(j) == j

\* `i = j; continue`: the loop's i++ then steps past the closing brace

afterSkip(j) == j + 1

ScanSkip ==
    /\ bpc = "scan"
    /\ i <= Len(mdText)
    /\ mdText[i] = "{"
    /\ closeAt(mdText, i) <= Len(mdText)
    /\ i' = afterSkip(closeAt(mdText, i))
    /\ UNCHANGED <<mdText, result, bpc>>
    /\ UNCHANGED <<treeVars, lineVars, runVars>>

ScanWrite ==
    /\ bpc = "scan"
    /\ i <= Len(mdText)
    /\ ~(mdText[i] = "{" /\ closeAt(mdText, i) <= Len(mdText))
    /\ result' = Append(result, mdText[i])
    /\ i' = i + 1
    /\ UNCHANGED <<mdText, bpc>>
    /\ UNCHANGED <<treeVars, lineVars, runVars>>

ScanEnd ==
    /\ bpc = "scan"
    /\ i > Len(mdText)
    /\ bpc' = "done"
    /\ UNCHANGED <<mdText, i, result>>
    /\ UNCHANGED <<treeVars, lineVars, runVars>>

NextBrace == ScanSkip \/ ScanWrite \/ ScanEnd

InitBrace ==
    /\ mdText \in UNION { [1..k -> BraceAlphabet] : k \in 0..MaxText }
    /\ i = 1
    /\ result = <<>>
    /\ bpc = "scan"
    /\ IdleTree /\ IdleLine /\ IdleRun

\* The loop runs to its end: nothing but the program's own steps happens.
SpecBrace == InitBrace /\ [][NextBrace]_vars /\ WF_vars(NextBrace)

Chars(s) == { s[k] : k \in 1..Len(s) }

\* every "{" that has a "}" after it drops the span through the nearest "}";
\* every other character is kept
RECURSIVE StripSpans(_)
StripSpans(s) ==
    IF s = <<>> THEN <<>>
    ELSE IF Head(s) = "{" /\ "}" \in Chars(s)
         THEN LET c == CHOOSE k \in 1..Len(s) :
                          s[k] = "}" /\ \A m \in 1..(k - 1) : s[m] # "}"
              IN StripSpans(SubSeq(s, c + 1, Len(s)))
         ELSE <<Head(s)>> \o StripSpans(Tail(s))

\* index of the first "{" with no "}" after it, 0 when there is none
Unterminated(s) ==
    LET open == { k \in 1..Len(s) :
                    s[k] = "{" /\ \A m \in k..Len(s) : s[m] # "}" }
    IN IF open = {} THEN 0
       ELSE CHOOSE k \in open : \A m \in open : k <= m

C5_TerminatedSpans ==
    /\ [](bpc = "done" => result = StripSpans(mdText))
    /\ <>(bpc = "done")

\* C5 witness: "{a{a}a}a" has been scanned to "a}a" (the first "}" wins).
C5_Witness ==
    /\ bpc = "done"
    /\ mdText = <<"{", "a", "{", "a", "}", "a", "}", "a">>
    /\ result = <<"a", "}", "a">>

----------------------------------------------------------------------------
(* processHTMLFile, lines 224-234: one iteration of the directive-line     *)
(* loop over a line of the converted text.                                 *)

Directive == <<":", ":", ":">>
\* the first pattern without its parenthesis
LinkUpNoParen == <<".", ".", "/">>
LinkUp == <<"(", ".", ".", "/">>
LinkIndex == <<"/", "i", "n", "d", "e", "x", ".", "h", "t", "m", "l", ")">>

Pieces ==
    { <<"(">>, <<".", ".", "/">>, <<"/">>, Tail(LinkIndex), <<".">>, Directive, <<" ">> }

Lines == { Flatten(ps) : ps \in UNION { [1..k -> Pieces] : k \in 0..MaxPieces } }

DropLine ==
    /\ lpc = "filter"
    /\ HasPrefix(TrimSpace(line), Directive)
    /\ lpc' = "dropped"
    /\ UNCHANGED <<lineIn, line>>
    /\ UNCHANGED <<treeVars, braceVars, runVars>>

RewriteUp ==
    /\ lpc = "filter"
    /\ ~HasPrefix(TrimSpace(line), Directive)
    /\ line' = ReplaceAll(line, LinkUp, <<"(">>)
    /\ lpc' = "up"
    /\ UNCHANGED lineIn
    /\ UNCHANGED <<treeVars, braceVars, runVars>>

RewriteIndex ==
    /\ lpc = "up"
    /\ line' = ReplaceAll(line, LinkIndex, <<")">>)
    /\ lpc' = "kept"
    /\ UNCHANGED lineIn
    /\ UNCHANGED <<treeVars, braceVars, runVars>>

NextLine == DropLine \/ RewriteUp \/ RewriteIndex

InitLine ==
    /\ lineIn \in Lines
    /\ line = lineIn
    /\ lpc = "filter"
    /\ IdleTree /\ IdleBrace /\ IdleRun

SpecLine == InitLine /\ [][NextLine]_vars

\* the two rewrites in the opposite order
IndexThenUp(l) == ReplaceAll(ReplaceAll(l, LinkIndex, <<")">>), LinkUp, <<"(">>)

\* "(../index.html)": the "/" that ends one pattern begins the other
Shared ==
    <<"(", ".", ".", "/", "i", "n", "d", "e", "x", ".", "h", "t", "m", "l", ")">>

\* C6 as stated: on every surviving line the two rewrites give the same
\* line in either order.
C6_AsStated == lpc = "kept" => line = IndexThenUp(lineIn)

\* C6 amended: the two rewrites give the same line in either order on
\* every surviving line that does not contain "(../index.html)".
C6_CommuteUnlessShared ==
    (lpc = "kept" /\ ~Contains(lineIn, Shared)) => line = IndexThenUp(lineIn)

\* C6 witness: a kept line held both patterns apart and both were rewritten.
C6_Witness ==
    /\ lpc = "kept"
    /\ Contains(lineIn, LinkUp) /\ Contains(lineIn, LinkIndex)
    /\ ~Contains(lineIn, Shared)
    /\ line = <<"(", ")">>

----------------------------------------------------------------------------
(* Paths and file names: path/filepath and the name tests of main and      *)
(* processHTMLFile, on character sequences.                                *)

Upper == <<"A", "B", "C", "D", "E", "F", "G", "H", "I", "J", "K", "L", "M",
           "N", "O", "P", "Q", "R", "S", "T", "U", "V", "W", "X", "Y", "Z">>
Lower == <<"a", "b", "c", "d", "e", "f", "g", "h", "i", "j", "k", "l", "m",
           "n", "o", "p", "q", "r", "s", "t", "u", "v", "w", "x", "y", "z">>

\* the characters of the model's file names, in byte order
Bytes == <<"-", ".", "/">> \o Upper \o <<"_">> \o Lower

Rank(c) == CHOOSE k \in 1..Len(Bytes) : Bytes[k] = c

ToLower(s) ==
    [k \in 1..Len(s) |->
        IF \E u \in 1..Len(Upper) : Upper[u] = s[k]
        THEN Lower[CHOOSE u \in 1..Len(Upper) : Upper[u] = s[k]]
        ELSE s[k]]

\* index of the last occurrence of character c in s, 0 when there is none
LastIndex(s, c) ==
    LET at == { k \in 1..Len(s) : s[k] = c }
    IN IF at = {} THEN 0 ELSE CHOOSE k \in at : \A m \in at : m <= k

Base(path) == SubSeq(path, LastIndex(path, "/") + 1, Len(path))

Ext(name) ==
    IF LastIndex(name, ".") = 0 THEN <<>>
    ELSE SubSeq(name, LastIndex(name, "."), Len(name))

DotHtml == <<".", "h", "t", "m", "l">>
DotMd == <<".", "m", "d">>
Processed == <<"p", "r", "o", "c", "e", "s", "s", "e", "d">>
ProcessedHtml == <<"_">> \o Processed \o DotHtml

\* line 142
fileNameWithoutExt(inputFile) ==
    TrimSuffix(Base(inputFile), Ext(Base(inputFile)))

\* line 144
outputFile(inputFile) == TrimSuffix(inputFile, DotHtml) \o ProcessedHtml

\* line 145: the name below outputDir
mdOutputFile(inputFile) == fileNameWithoutExt(inputFile) \o DotMd

\* line 287
isHtml(path) == HasSuffix(ToLower(path), DotHtml)

\* line 302: find -name "*processed*"
findMatches(path) == Contains(Base(path), Processed)

RECURSIVE StrLess(_, _)
StrLess(s, t) ==
    IF t = <<>> THEN FALSE
    ELSE IF s = <<>> THEN TRUE
    ELSE IF Head(s) # Head(t) THEN Rank(Head(s)) < Rank(Head(t))
    ELSE StrLess(Tail(s), Tail(t))

\* filepath.Walk visits the names of each directory in sorted order, a
\* directory's contents before the names after it: compare by the first
\* path element, then by the rest.
RECURSIVE WalkLess(_, _)
WalkLess(p, q) ==
    LET cut(x) == IF "/" \in Chars(x)
                  THEN CHOOSE k \in 1..Len(x) :
                           x[k] = "/" /\ \A m \in 1..(k - 1) : x[m] # "/"
                  ELSE Len(x) + 1
        hp == SubSeq(p, 1, cut(p) - 1)
        hq == SubSeq(q, 1, cut(q) - 1)
    IN IF p = q THEN FALSE
       ELSE IF hp # hq THEN StrLess(hp, hq)
       ELSE WalkLess(SubSeq(p, cut(p) + 1, Len(p)), SubSeq(q, cut(q) + 1, Len(q)))

WalkOrder(paths) ==
    CHOOSE o \in [1..Cardinality(paths) -> paths] :
        \A a, b \in 1..Cardinality(paths) : a < b => WalkLess(o[a], o[b])

----------------------------------------------------------------------------
(* main and processHTMLFile: the walk over the input root, the pipeline    *)
(* of one file, and the cleanup.  File contents are recorded by what       *)
(* wrote them.                                                             *)

X == <<"x">>
Pool ==
    { <<"a", "/">> \o X \o DotHtml,
      <<"b", "/">> \o X \o DotHtml,
      <<"a", "/">> \o X \o ProcessedHtml,
      Processed \o <<"-", "y">> \o DotHtml,
      <<"Y", ".", "H", "T", "M", "L">>,
      <<"n", "o", "t", "e", "s", ".", "t", "x", "t">> }

Original(path) == [kind |-> "original", of |-> path]
Shell(from) == [kind |-> "shell", from |-> from]
Partial == [kind |-> "partial"]

\* the post-processed text without the metadata block
bodyOnly(f) == [front |-> FALSE, body |-> "cleaned", of |-> f]

\* lines 201-251: the metadata block, then the post-processed text
resultString(f) == [front |-> TRUE, body |-> "cleaned", of |-> f]

\* what pandoc leaves at mdOutputFile
Converted(f) == [front |-> FALSE, body |-> "converted", of |-> f]

Truncated(f) == [front |-> FALSE, body |-> "partial", of |-> f]

Current == order[cursor]

Walking == rpc = "walk" /\ cursor <= Len(order)

\* the callback returning the error to the walk, which then stops
FileFailedStops(f) ==
    /\ st' = [st EXCEPT ![f] = "Failed"]
    /\ content' = <<>>
    /\ rpc' = "aborted"
    /\ UNCHANGED cursor

\* lines 288-292: the callback logs the error and returns nil
FileFailed(f) ==
    /\ st' = [st EXCEPT ![f] = "Failed"]
    /\ content' = <<>>
    /\ cursor' = cursor + 1
    /\ UNCHANGED rpc

Advance(f, to) ==
    /\ st' = [st EXCEPT ![f] = to]
    /\ UNCHANGED <<cursor, rpc>>

\* lines 282-284: the walk hands the callback an error and stops
WalkError ==
    /\ Walking /\ st[Current] = "Pending"
    /\ rpc' = "aborted"
    /\ UNCHANGED <<fs0, order, fs, out, st, content, cursor>>
    /\ UNCHANGED <<treeVars, braceVars, lineVars>>

\* line 287, false: not an .html file
SkipEntry ==
    /\ Walking /\ st[Current] = "Pending" /\ ~isHtml(Current)
    /\ st' = [st EXCEPT ![Current] = "Skipped"]
    /\ cursor' = cursor + 1
    /\ UNCHANGED <<fs0, order, fs, out, content, rpc>>
    /\ UNCHANGED <<treeVars, braceVars, lineVars>>

\* line 287, true: processHTMLFile is called
Discover ==
    /\ Walking /\ st[Current] = "Pending" /\ isHtml(Current)
    /\ Advance(Current, "Discovered")
    /\ UNCHANGED <<fs0, order, fs, out, content>>
    /\ UNCHANGED <<treeVars, braceVars, lineVars>>

\* lines 148-151
ReadInput ==
    /\ Walking /\ st[Current] = "Discovered"
    /\ \/ /\ Current \in DOMAIN fs
          /\ content' = fs[Current]
          /\ Advance(Current, "Read")
       \/ FileFailed(Current)
    /\ UNCHANGED <<fs0, fs, out, order>>
    /\ UNCHANGED <<treeVars, braceVars, lineVars>>

\* lines 154-157
ParseInput ==
    /\ Walking /\ st[Current] = "Read"
    /\ \/ Advance(Current, "Parsed") /\ UNCHANGED content
       \/ FileFailed(Current)
    /\ UNCHANGED <<fs0, fs, out, order>>
    /\ UNCHANGED <<treeVars, braceVars, lineVars>>

\* line 160
Extract ==
    /\ Walking /\ st[Current] = "Parsed"
    /\ Advance(Current, "Extracted")
    /\ UNCHANGED <<fs0, order, fs, out, content>>
    /\ UNCHANGED <<treeVars, braceVars, lineVars>>

\* lines 163-183: the shell is written beside the input; a failed write
\* leaves the target as it was or already truncated
Assemble ==
    /\ Walking /\ st[Current] = "Extracted"
    /\ \/ /\ fs' = (outputFile(Current) :> Shell(content)) @@ fs
          /\ Advance(Current, "Assembled")
          /\ UNCHANGED content
       \/ /\ fs' \in {fs, (outputFile(Current) :> Partial) @@ fs}
          /\ FileFailed(Current)
    /\ UNCHANGED <<fs0, out, order>>
    /\ UNCHANGED <<treeVars, braceVars, lineVars>>

\* lines 188-191: pandoc writes mdOutputFile, or fails
Convert ==
    /\ Walking /\ st[Current] = "Assembled"
    /\ \/ /\ out' = (mdOutputFile(Current) :> Converted(Current)) @@ out
          /\ Advance(Current, "Converted")
          /\ UNCHANGED content
       \/ FileFailed(Current) /\ UNCHANGED out
    /\ UNCHANGED <<fs0, fs, order>>
    /\ UNCHANGED <<treeVars, braceVars, lineVars>>

\* lines 196-251: the markdown is read back and post-processed in memory
PostProcess ==
    /\ Walking /\ st[Current] = "Converted"
    /\ \/ Advance(Current, "PostProcessed") /\ UNCHANGED content
       \/ FileFailed(Current)
    /\ UNCHANGED <<fs0, fs, out, order>>
    /\ UNCHANGED <<treeVars, braceVars, lineVars>>

\* lines 254-257: a failed write leaves the file as it was or truncated
WriteFinal ==
    /\ Walking /\ st[Current] = "PostProcessed"
    /\ \/ /\ out' = (mdOutputFile(Current) :> resultString(Current)) @@ out
          /\ Advance(Current, "Written")
          /\ UNCHANGED content
       \/ /\ out' \in {out, (mdOutputFile(Current) :> Truncated(Current)) @@ out}
          /\ FileFailed(Current)
    /\ UNCHANGED <<fs0, fs, order>>
    /\ UNCHANGED <<treeVars, braceVars, lineVars>>

\* lines 259-260 and 292
Finish ==
    /\ Walking /\ st[Current] = "Written"
    /\ st' = [st EXCEPT ![Current] = "Done"]
    /\ content' = <<>>
    /\ cursor' = cursor + 1
    /\ UNCHANGED <<fs0, fs, out, order, rpc>>
    /\ UNCHANGED <<treeVars, braceVars, lineVars>>

\* lines 295-301
EndWalk ==
    /\ rpc = "walk" /\ cursor > Len(order)
    /\ rpc' = "cleanup"
    /\ UNCHANGED <<fs0, order, fs, out, st, content, cursor>>
    /\ UNCHANGED <<treeVars, braceVars, lineVars>>

Without(f, gone) == [q \in DOMAIN f \ gone |-> f[q]]

\* lines 302-306: find deletes the files named *processed*; when it fails
\* it may or may not have deleted them
Cleanup ==
    /\ rpc = "cleanup"
    /\ LET hit == { q \in DOMAIN fs : findMatches(q) } IN
       \/ fs' = Without(fs, hit) /\ rpc' = "exited"
       \/ fs' \in {fs, Without(fs, hit)} /\ rpc' = "cleanupFailed"
    /\ UNCHANGED <<fs0, order, out, st, content, cursor>>
    /\ UNCHANGED <<treeVars, braceVars, lineVars>>

NextRun ==
    \/ WalkError \/ SkipEntry \/ Discover \/ ReadInput \/ ParseInput
    \/ Extract \/ Assemble \/ Convert \/ PostProcess \/ WriteFinal
    \/ Finish \/ EndWalk \/ Cleanup

InitRun ==
    /\ \E S \in SUBSET Pool :
          /\ Cardinality(S) \in 1..MaxFiles
          /\ fs0 = [q \in S |-> Original(q)]
          /\ st = [q \in S |-> "Pending"]
          /\ order = WalkOrder(S)
    /\ fs = fs0
    /\ out = <<>>
    /\ content = <<>>
    /\ cursor = 1
    /\ rpc = "walk"
    /\ IdleTree /\ IdleBrace /\ IdleLine

Spec == InitRun /\ [][NextRun]_vars

\* The run keeps going unless the walk stops it: every step but WalkError
\* is taken when it can be (the converter is taken to return).
RunSteps ==
    \/ SkipEntry \/ Discover \/ ReadInput \/ ParseInput
    \/ Extract \/ Assemble \/ Convert \/ PostProcess \/ WriteFinal
    \/ Finish \/ EndWalk \/ Cleanup

SpecFair == Spec /\ WF_vars(RunSteps)

----------------------------------------------------------------------------
(* Properties of the run.                                                  *)

Terminal == {"Done", "Failed", "Skipped"}

\* the file has been handed to processHTMLFile
Enumerated(f) == f \in DOMAIN st /\ st[f] \notin {"Pending", "Skipped"}

OneAtATime ==
    \A k \in 1..Len(order) :
        /\ k < cursor => st[order[k]] \in Terminal
        /\ k > cursor => st[order[k]] = "Pending"

FailureGoesOn ==
    \A f \in DOMAIN st :
        (st[f] # "Failed" /\ st'[f] = "Failed") =>
            /\ rpc' = "walk"
            /\ cursor' = cursor + 1
            /\ \A g \in DOMAIN st \ {f} : st'[g] = st[g]

\* C7: a failure at any step of one file marks that file Failed and moves
\* the walk to the next entry without stopping the run; files are carried
\* one at a time; in the end every file handed to processHTMLFile is Done
\* or Failed.
C7_FailureDoesNotStop ==
    /\ []OneAtATime
    /\ [][FailureGoesOn]_vars
    /\ <>[](\A f \in DOMAIN st : Enumerated(f) => st[f] \in {"Done", "Failed"})

\* C7 witness: the run is over, a file failed and a file visited after it
\* was carried to Done.
C7_Witness ==
    /\ rpc = "exited"
    /\ \E a, b \in 1..Len(order) :
          a < b /\ st[order[a]] = "Failed" /\ st[order[b]] = "Done"

WroteOutput(f) == st[f] \in {"Converted", "PostProcessed", "Written", "Done"}

HtmlInputs == { f \in DOMAIN fs0 : isHtml(f) }

\* C8: two distinct enumerated .html files never write the same output
\* path, and when every file succeeds the run leaves as many output
\* documents as there were input files.
C8_OneToOne ==
    /\ \A f, g \in DOMAIN st :
          (f # g /\ WroteOutput(f) /\ WroteOutput(g))
              => mdOutputFile(f) # mdOutputFile(g)
    /\ (rpc = "exited" /\ \A f \in HtmlInputs : st[f] = "Done")
          => Cardinality(DOMAIN out) = Cardinality(HtmlInputs)

C10_InputsUntouched ==
    \A q \in DOMAIN fs0 : q \in DOMAIN fs /\ fs[q] = fs0[q]

====
